---------------------------- MODULE Spec2Model ----------------------------
(***************************************************************************)
(* Weighing-session backend (Flask + Firestore + Cloud Storage).           *)
(*                                                                         *)
(* The state is the externally persisted store: the two session            *)
(* collections, the "weights" subcollections of product sessions, the      *)
(* image bucket, the iot_devices and users collections, plus the wall      *)
(* clock read by datetime.utcnow().  Every HTTP request is a call; a call  *)
(* that makes several store round trips is several steps, so that other    *)
(* calls interleave between its reads and writes exactly where the network *)
(* round trips of the code are.                                            *)
(*                                                                         *)
(* Spec is the session life cycle (create, weigh, identify, complete,      *)
(* detail); SpecDevice the device-facing routes; SpecQuery the two listing *)
(* operations; SpecUsers the authentication middleware.                    *)
(***************************************************************************)
EXTENDS Integers, Sequences, FiniteSets, TLC

\* ------------------------------------------------------------------ bounds
MaxUuid == 1
MaxClock == 1
MaxCalls == 3

\* --------------------------------------------------------------- constants
BATCH_COLLECTION == "vegetable_batches"
ROMPES_COLLECTION == "rompes_batches"
Collections == {BATCH_COLLECTION, ROMPES_COLLECTION}

\* uuid.uuid4() values; a session id is <<prefix, uuid>>, the prefix being ""
\* for an id of the earlier service versions (a bare uuid).
Uuids == 1..MaxUuid
Prefixes == {"prod_", "rompes_", ""}
SessionIds == Prefixes \X Uuids

\* An absent value (None, a missing field, no document) is the empty tuple,
\* a present one is the one-element tuple of the value.
Absent == <<>>
Some(v) == <<v>>
Val(o) == o[1]

\* Authenticated principals (request.user): firebase uid and profile role.
Principals == {"alice", "bob"}
RoleOf == [alice |-> "user", bob |-> "admin"]

Devices == {"scale1"}
\* float(data.get('weight')): any number the device sends, sign included.
WeightInputs == {-1, 2}
Filenames == {"a.jpg"}
Labels == {"kale", "bayam merah", "sawi"}
\* round(conf, 2), in hundredths
Confidences == {50, 90}
Detections == [vegetable_type : Labels, confidence : Confidences]
DetectionLists == {<<>>} \cup {<<d>> : d \in Detections}
                    \cup {<<d, e>> : d \in Detections, e \in Detections}

\* The produce variety a create request may carry for a rompes session: the
\* field is absent or names a variety.
Varieties == {Absent, Some("kale")}

\* The "status" field of a device status report
DeviceStatuses == {"online", "offline"}

Calls == 1..MaxCalls

VARIABLES docs, weights, images, clock, calls, devices, users

vars == <<docs, weights, images, clock, calls, devices, users>>

Exists(key) == key \in DOMAIN docs

IdleCall == [op |-> "none", pc |-> "idle", principal |-> "", body_user |-> "",
             api_key_ok |-> FALSE, session_type |-> "", variety |-> Absent,
             session_id |-> Absent, weight |-> 0, filename |-> "",
             session_doc |-> Absent, result |-> "", ret |-> Absent]

\* ------------------------------------------------------------ pure helpers

\* str.startswith on a session id
startswith(session_id, prefix) == session_id[1] = prefix

\* process_weight_from_device: collection and session type from the prefix
weight_dispatch(session_id) ==
    IF startswith(session_id, "prod_")
    THEN [collection_name |-> BATCH_COLLECTION, session_type |-> "product"]
    ELSE IF startswith(session_id, "rompes_")
    THEN [collection_name |-> ROMPES_COLLECTION, session_type |-> "rompes"]
    ELSE [collection_name |-> BATCH_COLLECTION, session_type |-> "product"]

\* A dispatch that drops the prefix and takes every reference for the product
\* session of that suffix.
SameSuffixProduct(session_id) == <<BATCH_COLLECTION, <<"prod_", session_id[2]>>>>

\* process_weight_from_device: the document the call reads and increments
weight_session_ref(session_id) ==
    <<weight_dispatch(session_id).collection_name, session_id>>

\* A reading without a session answered as an error.
NoSessionIsError == "error"

\* The "status" process_weight_from_device returns for a reading without a
\* session_id
no_session_status == "received"

\* complete_weighing_session: collection and session type from the prefix
complete_dispatch(session_id) ==
    IF startswith(session_id, "prod_")
    THEN [collection_name |-> BATCH_COLLECTION, session_type |-> "product"]
    ELSE IF startswith(session_id, "rompes_")
    THEN [collection_name |-> ROMPES_COLLECTION, session_type |-> "rompes"]
    ELSE [collection_name |-> BATCH_COLLECTION, session_type |-> "product"]

complete_session_ref(session_id) ==
    <<complete_dispatch(session_id).collection_name, session_id>>

\* str(e) of the ValueErrors raised by the service, the "details" of the 500
\* answer
session_type_error == "session_type must be either 'product' or 'rompes'"

session_id_required_error == "session_id is required."

does_not_exist_error == "Session with ID does not exist."

\* get_weighing_session_detail: collection and session type from the prefix
detail_dispatch(session_id) ==
    IF startswith(session_id, "prod_")
    THEN [collection_name |-> BATCH_COLLECTION, session_type |-> "product"]
    ELSE IF startswith(session_id, "rompes_")
    THEN [collection_name |-> ROMPES_COLLECTION, session_type |-> "rompes"]
    ELSE [collection_name |-> BATCH_COLLECTION, session_type |-> "product"]

\* A create that takes any session_type.
AnySessionType(session_type) == TRUE

\* session_type in ['product', 'rompes']
valid_session_type(session_type) == session_type \in {"product", "rompes"}

\* The two prefixes exchanged.
SwappedPrefix(session_type, uuid) ==
    IF session_type = "product" THEN <<"rompes_", uuid>> ELSE <<"prod_", uuid>>

\* f"prod_{session_id}" / f"rompes_{session_id}"
prefixed_session_id(session_type, uuid) ==
    IF session_type = "product" THEN <<"prod_", uuid>> ELSE <<"rompes_", uuid>>

\* A route that keeps the user_id of the request body.
BodyUser(body_user, authenticated_user_id) == body_user

\* data['user_id'] = authenticated_user_id
force_user_id(body_user, authenticated_user_id) == authenticated_user_id

\* An id generator that may return an id already in use.
UuidReused(key) == TRUE

\* uuid.uuid4() never returns an id already in use
uuid4_fresh(key) == ~Exists(key)

\* The document written by session_ref.set(...) in initiate_weighing_session
new_session(user_id, session_type, now) ==
    [user_id |-> user_id, session_type |-> session_type, status |-> "in_progress",
     created_at |-> now, total_weight |-> 0, completed_at |-> Absent,
     vegetable_type |-> Absent, confidence |-> Absent, image_url |-> Absent]

\* A read that answers with an empty product document when there is none.
WeightDocOrEmpty(key) ==
    IF Exists(key) THEN Some(docs[key]) ELSE Some(new_session("", "product", 0))

\* session_doc = session_ref.get() of process_weight_from_device: the
\* snapshot, Absent when session_doc.exists is false
weight_session_doc(key) == IF Exists(key) THEN Some(docs[key]) ELSE Absent

\* A read that answers with an empty product document when there is none.
CompleteDocOrEmpty(key) ==
    IF Exists(key) THEN Some(docs[key]) ELSE Some(new_session("", "product", 0))

\* session_doc = session_ref.get() of complete_weighing_session
complete_session_doc(key) == IF Exists(key) THEN Some(docs[key]) ELSE Absent

\* A client-side read-modify-write: the total the call read, plus the value.
ReadModifyWrite(doc, session_doc, weight) ==
    [doc EXCEPT !.total_weight = Val(session_doc).total_weight + weight]

\* session_ref.update({"total_weight": firestore.Increment(weight)}): the
\* delta is applied by the store to the stored value.
increment_total_weight(doc, session_doc, weight) ==
    [doc EXCEPT !.total_weight = @ + weight]

\* A reading stored without its sign.
UnsignedEntry(device_id, weight, now) ==
    [weight |-> IF weight < 0 THEN 0 - weight ELSE weight, timestamp |-> now,
     device_id |-> device_id]

\* weight_entry of process_weight_from_device
weight_entry(device_id, weight, now) ==
    [weight |-> weight, timestamp |-> now, device_id |-> device_id]

\* A payload written with set() and no merge: the fields it does not name,
\* owner and type among them, are lost.
PayloadDropsOwnerAndType(doc, now) ==
    [doc EXCEPT !.status = "completed", !.completed_at = Some(now),
                !.user_id = "", !.session_type = ""]

\* A payload that also resets the accumulator.
PayloadZeroesTotal(doc, now) ==
    [doc EXCEPT !.status = "completed", !.completed_at = Some(now),
                !.total_weight = 0]

\* update_payload of complete_weighing_session, merged by session_ref.update
update_payload(doc, now) ==
    [doc EXCEPT !.status = "completed", !.completed_at = Some(now)]

\* The record complete_weighing_session returns
completed_record(session_id, session_info) ==
    [session_id |-> session_id, session_type |-> complete_dispatch(session_id).session_type,
     user_id |-> session_info.user_id, status |-> session_info.status,
     created_at |-> session_info.created_at,
     completed_at |-> session_info.completed_at,
     vegetable_type |-> session_info.vegetable_type,
     total_weight |-> session_info.total_weight,
     confidence |-> session_info.confidence,
     image_url |-> session_info.image_url]

\* blob.generate_signed_url and the file name identify_vegetable cuts out of it
signed_url(filename) == <<"https://storage", filename, "?signature">>

filename_of(image_url) == image_url[2]

\* A cleanup that leaves the blob in the bucket.
KeepImage(bucket, filename) == bucket

\* delete_image: blob.delete() on the bucket's contents
delete_image(bucket, filename) == bucket \ {filename}

\* An except branch that re-raises without deleting the image.
ReraiseOnly(bucket, filename) == bucket

\* The except branch of identify_vegetable: delete_image again, a failing
\* delete (the blob is already gone) being swallowed, before the re-raise
except_cleanup(bucket, filename) == delete_image(bucket, filename)

\* str(e) of the NotFound that batch_ref.update raises on a document that
\* does not exist
no_document_error == "No document to update"

\* detections.sort(key=confidence, reverse=True)[0]: the first detection of
\* the highest confidence (the sort is stable)
RECURSIVE best_from(_, _, _)
best_from(detections, i, best) ==
    IF i > Len(detections) THEN best
    ELSE best_from(detections, i + 1,
                   IF detections[i].confidence > best.confidence
                   THEN detections[i] ELSE best)

best_detection(detections) == best_from(detections, 2, detections[1])

is_accepted(best) == best.vegetable_type \in {"kale", "bayam merah"}

\* batch_ref.update({vegetable_type, confidence, image_url})
attach_detection(doc, found) ==
    [doc EXCEPT !.vegetable_type = Some(found.vegetable_type),
                !.confidence = Some(found.confidence),
                !.image_url = Some(found.image_url)]

\* get_weighing_session_detail: the prefix dispatch and the point read
get_weighing_session_detail(session_id) ==
    LET key == <<detail_dispatch(session_id).collection_name, session_id>>
    IN IF ~Exists(key)
       THEN [status |-> "error", session |-> Absent]
       ELSE [status |-> "success", session |-> Some(docs[key])]

\* ----------------------------------------------------------------- queries

\* strftime('%A', d): created_at counts days, and day 0 is a Wednesday
WeekdayNames ==
    <<"Wednesday", "Thursday", "Friday", "Saturday", "Sunday", "Monday", "Tuesday">>

weekday_name(day) == WeekdayNames[(day % 7) + 1]

\* created_at.strftime('%A, %d-%m-%Y'): the weekday name, then the date; the
\* days of the model lie in one month, so the date is the day of the month
formatted_date(created_at) == <<weekday_name(created_at), created_at + 1>>

\* The place of a weekday name in the order of str
AlphabeticalRank(name) ==
    CASE name = "Friday" -> 1 [] name = "Monday" -> 2 [] name = "Saturday" -> 3
      [] name = "Sunday" -> 4 [] name = "Thursday" -> 5 [] name = "Tuesday" -> 6
      [] name = "Wednesday" -> 7

\* a < b on two formatted dates, as str compares them: by the weekday name
\* first, the two names being equal or differing within their first letters
str_less(a, b) ==
    \/ AlphabeticalRank(a[1]) < AlphabeticalRank(b[1])
    \/ a[1] = b[1] /\ a[2] < b[2]

\* A filter that lets an admin see every session.
AdminSeesAll(doc, user_id) == doc.user_id = user_id \/ RoleOf[user_id] = "admin"

\* .where('user_id', '==', user_id)
where_user_id(doc, user_id) == doc.user_id = user_id

\* A filter that takes every session, whatever its status.
AnyStatus(doc) == TRUE

\* .where('status', '==', 'in_progress')
where_in_progress(doc) == doc.status = "in_progress"

\* .order_by('created_at', direction=DESCENDING).stream() over the documents
\* keys: latest first, documents of one created_at by descending id
RECURSIVE order_by_created_at(_)
order_by_created_at(keys) ==
    IF keys = {} THEN <<>>
    ELSE LET first == CHOOSE k \in keys : \A o \in keys :
                         \/ docs[o].created_at < docs[k].created_at
                         \/ /\ docs[o].created_at = docs[k].created_at
                            /\ o[2][2] <= k[2][2]
         IN <<first>> \o order_by_created_at(keys \ {first})

\* The entry get_user_weighing_history appends for a document
history_entry(key, session_type) ==
    [session_id |-> key[2], session_type |-> session_type,
     total_weight |-> docs[key].total_weight,
     formatted_date |-> formatted_date(docs[key].created_at),
     status |-> docs[key].status]

\* One query loop of get_user_weighing_history
history_query(collection_name, session_type, user_id) ==
    LET found == order_by_created_at(
                    {key \in DOMAIN docs : /\ key[1] = collection_name
                                           /\ where_user_id(docs[key], user_id)})
    IN [i \in 1..Len(found) |-> history_entry(found[i], session_type)]

\* list.sort(key=formatted_date, reverse=True): a stable sort, so an entry
\* goes behind every entry whose key is not less than its own
RECURSIVE insert_by_formatted_date(_, _)
insert_by_formatted_date(sorted, x) ==
    IF sorted = <<>> THEN <<x>>
    ELSE IF str_less(Head(sorted).formatted_date, x.formatted_date)
    THEN <<x>> \o sorted
    ELSE <<Head(sorted)>> \o insert_by_formatted_date(Tail(sorted), x)

RECURSIVE sort_by_formatted_date(_)
sort_by_formatted_date(all_sessions) ==
    IF all_sessions = <<>> THEN <<>>
    ELSE insert_by_formatted_date(
            sort_by_formatted_date(SubSeq(all_sessions, 1, Len(all_sessions) - 1)),
            all_sessions[Len(all_sessions)])

\* The session_data get_active_weighing_session appends for a document
active_entry(key, session_type) ==
    [session_id |-> key[2], session_type |-> session_type,
     status |-> docs[key].status, created_at |-> docs[key].created_at]

\* One query loop of get_active_weighing_session
active_query(collection_name, session_type) ==
    LET found == order_by_created_at(
                    {key \in DOMAIN docs : /\ key[1] = collection_name
                                           /\ where_in_progress(docs[key])})
    IN [i \in 1..Len(found) |-> active_entry(found[i], session_type)]

\* active_sessions.sort(key=created_at, reverse=True), stable
RECURSIVE insert_by_created_at(_, _)
insert_by_created_at(sorted, x) ==
    IF sorted = <<>> THEN <<x>>
    ELSE IF Head(sorted).created_at < x.created_at
    THEN <<x>> \o sorted
    ELSE <<Head(sorted)>> \o insert_by_created_at(Tail(sorted), x)

RECURSIVE sort_by_created_at(_)
sort_by_created_at(active_sessions) ==
    IF active_sessions = <<>> THEN <<>>
    ELSE insert_by_created_at(
            sort_by_created_at(SubSeq(active_sessions, 1, Len(active_sessions) - 1)),
            active_sessions[Len(active_sessions)])

\* ------------------------------------------------------------------- calls

\* Calls are interchangeable; they are started in index order.
CanStart(c) ==
    /\ calls[c].pc = "idle"
    /\ IF c = 1 THEN TRUE ELSE calls[c - 1].pc # "idle"

\* A request refused before the service is entered keeps no arguments.
Rejected(op) == [IdleCall EXCEPT !.op = op]

Finish(c, rec, result, ret) ==
    calls' = [calls EXCEPT ![c] = [rec EXCEPT !.pc = "done", !.result = result, !.ret = ret]]

\* POST /api/batch/initiate.  The request body may carry any further field;
\* the service reads user_id and session_type only.  The variety a rompes
\* request carried is kept in the call record for the properties.
initiate_batch_tracking(c) ==
    /\ CanStart(c)
    /\ \E p \in Principals, body_user \in Principals \cup {""},
          session_type \in {"product", "rompes", "other"}, uuid \in Uuids,
          variety \in Varieties :
         LET user_id == force_user_id(body_user, p)
             id == prefixed_session_id(session_type, uuid)
             key == <<IF session_type = "product" THEN BATCH_COLLECTION
                      ELSE ROMPES_COLLECTION, id>>
             rec == [IdleCall EXCEPT !.op = "initiate", !.principal = p,
                                     !.body_user = body_user,
                                     !.session_type = session_type,
                                     !.variety = IF session_type = "rompes"
                                                 THEN variety ELSE Absent]
         IN IF ~valid_session_type(session_type)
            THEN /\ Finish(c, [Rejected("initiate") EXCEPT !.session_type = session_type],
                           "500", Some(session_type_error))
                 /\ UNCHANGED <<docs, weights, images, clock, devices, users>>
            ELSE /\ uuid4_fresh(key)
                 /\ docs' = (key :> new_session(user_id, session_type, clock)) @@ docs
                 /\ Finish(c, [rec EXCEPT !.session_id = id], "ok", Some(id))
                 /\ UNCHANGED <<weights, images, clock, devices, users>>

\* POST /api/iot/weight: the key check, the JSON check, then
\* process_weight_from_device up to its session_ref.get()
handle_iot_weight(c) ==
    /\ CanStart(c)
    /\ \E api_key_ok \in BOOLEAN, device_id \in Devices, weight \in WeightInputs,
          session_id \in SessionIds \cup {Absent} :
         LET rec == [IdleCall EXCEPT !.op = "weight", !.principal = device_id,
                                     !.api_key_ok = api_key_ok,
                                     !.weight = weight, !.session_id = session_id]
             key == weight_session_ref(session_id)
         IN /\ IF ~api_key_ok
               THEN Finish(c, Rejected("weight"), "401", Absent)
               ELSE IF session_id = Absent
               THEN Finish(c, rec, no_session_status, Absent)
               ELSE IF weight_session_doc(key) = Absent
               THEN Finish(c, rec, "not_found", Absent)
               ELSE calls' = [calls EXCEPT ![c] =
                        [rec EXCEPT !.session_doc = weight_session_doc(key),
                                    !.pc = IF weight_dispatch(session_id).session_type = "product"
                                           THEN "set_weight" ELSE "increment"]]
            /\ UNCHANGED <<docs, weights, images, clock, devices, users>>

\* weight_doc_ref.set(weight_entry)
process_weight_set_entry(c) ==
    /\ calls[c].op = "weight" /\ calls[c].pc = "set_weight"
    /\ weights' = [weights EXCEPT ![calls[c].session_id] =
                     Append(@, weight_entry(calls[c].principal, calls[c].weight, clock))]
    /\ calls' = [calls EXCEPT ![c].pc = "increment"]
    /\ UNCHANGED <<docs, images, clock, devices, users>>

\* session_ref.update({"total_weight": firestore.Increment(weight)}) and return
process_weight_increment(c) ==
    /\ calls[c].op = "weight" /\ calls[c].pc = "increment"
    /\ LET key == weight_session_ref(calls[c].session_id)
       IN docs' = [docs EXCEPT ![key] =
                     increment_total_weight(@, calls[c].session_doc, calls[c].weight)]
    /\ Finish(c, calls[c], "ok", Absent)
    /\ UNCHANGED <<weights, images, clock, devices, users>>

\* POST /api/batch/complete: the route's checks of batch_id, then
\* complete_weighing_session up to its first session_ref.get()
finalize_batch_tracking(c) ==
    /\ CanStart(c)
    /\ \E p \in Principals, batch_id \in SessionIds \cup {Absent},
          session_id \in SessionIds \cup {Absent} :
         LET rec == [IdleCall EXCEPT !.op = "complete", !.principal = p,
                                     !.session_id = session_id]
             key == complete_session_ref(session_id)
         IN /\ IF batch_id = Absent
               THEN Finish(c, Rejected("complete"), "400", Absent)
               ELSE IF session_id = Absent
               THEN Finish(c, Rejected("complete"), "500", Some(session_id_required_error))
               ELSE IF complete_session_doc(key) = Absent
               THEN Finish(c, rec, "500", Some(does_not_exist_error))
               ELSE calls' = [calls EXCEPT ![c] =
                        [rec EXCEPT !.session_doc = complete_session_doc(key),
                                    !.pc = "update"]]
            /\ UNCHANGED <<docs, weights, images, clock, devices, users>>

\* session_ref.update(update_payload)
complete_update(c) ==
    /\ calls[c].op = "complete" /\ calls[c].pc = "update"
    /\ LET key == complete_session_ref(calls[c].session_id)
       IN docs' = [docs EXCEPT ![key] = update_payload(@, clock)]
    /\ calls' = [calls EXCEPT ![c].pc = "return"]
    /\ UNCHANGED <<weights, images, clock, devices, users>>

\* session_info = session_ref.get().to_dict() and the returned record
complete_return(c) ==
    /\ calls[c].op = "complete" /\ calls[c].pc = "return"
    /\ LET key == complete_session_ref(calls[c].session_id)
       IN Finish(c, calls[c], "ok",
                 Some(completed_record(calls[c].session_id, docs[key])))
    /\ UNCHANGED <<docs, weights, images, clock, devices, users>>

\* POST /api/ml/identify-vegetable up to upload_image.  The handler reads no
\* session document; session_doc records, for the properties only, the
\* document the reference named when the request arrived.
process_vegetable_identification(c) ==
    /\ CanStart(c)
    /\ \E file_ok \in BOOLEAN, filename \in Filenames,
          batch_id \in SessionIds \cup {Absent} :
         IF ~file_ok
         THEN /\ Finish(c, Rejected("identify"), "400", Absent)
              /\ UNCHANGED <<docs, weights, images, clock, devices, users>>
         ELSE /\ images' = images \cup {filename}
              /\ calls' = [calls EXCEPT ![c] =
                    [IdleCall EXCEPT !.op = "identify",
                                     !.session_id = batch_id,
                                     !.session_doc =
                                        IF batch_id # Absent
                                           /\ Exists(<<BATCH_COLLECTION, batch_id>>)
                                        THEN Some(docs[<<BATCH_COLLECTION, batch_id>>])
                                        ELSE Absent,
                                     !.filename = filename_of(signed_url(filename)),
                                     !.pc = "identify"]]
              /\ UNCHANGED <<docs, weights, clock, devices, users>>

\* identify_vegetable when get_model, the image download or the model run
\* raises: the except branch deletes the image (a failing delete is
\* swallowed) and re-raises.
identify_vegetable_raises(c) ==
    /\ calls[c].op = "identify" /\ calls[c].pc = "identify"
    /\ images' = except_cleanup(images, calls[c].filename)
    /\ Finish(c, calls[c], "500", Absent)
    /\ UNCHANGED <<docs, weights, clock, devices, users>>

\* identify_vegetable: the model's detections, then the one store write the
\* outcome asks for.  delete_image raises when the blob is gone, and
\* batch_ref.update when the document does not exist; both end in the
\* except branch.
identify_vegetable(c) ==
    /\ calls[c].op = "identify" /\ calls[c].pc = "identify"
    /\ \E detections \in DetectionLists :
         LET filename == calls[c].filename
             batch_id == calls[c].session_id
             key == <<BATCH_COLLECTION, batch_id>>
             best == best_detection(detections)
             found == [vegetable_type |-> best.vegetable_type,
                       confidence |-> best.confidence,
                       image_url |-> signed_url(filename)]
             fail(details) ==
                     /\ images' = except_cleanup(images, filename)
                     /\ Finish(c, calls[c], "500", details)
                     /\ UNCHANGED <<docs, weights, clock, devices, users>>
             reject(message) ==
                     IF filename \in images
                     THEN /\ images' = delete_image(images, filename)
                          /\ Finish(c, calls[c], message, Absent)
                          /\ UNCHANGED <<docs, weights, clock, devices, users>>
                     ELSE fail(Absent)
         IN IF detections = <<>> THEN reject("no_object")
            ELSE IF is_accepted(best)
            THEN IF batch_id = Absent
                 THEN /\ Finish(c, calls[c], "detected", Some(found))
                      /\ UNCHANGED <<docs, weights, images, clock, devices, users>>
                 ELSE IF ~Exists(key) THEN fail(Some(no_document_error))
                 ELSE /\ docs' = [docs EXCEPT ![key] = attach_detection(@, found)]
                      /\ Finish(c, calls[c], "detected", Some(found))
                      /\ UNCHANGED <<weights, images, clock, devices, users>>
            ELSE reject("not_kale_or_bayam")

\* GET /api/batches/<batch_id>: the service call succeeds or reports "not
\* found"; the route then reads batch_owner_id, a name that is never bound,
\* and the NameError becomes handle_api_exception's 500.
get_batch_details(c) ==
    /\ CanStart(c)
    /\ \E p \in Principals, batch_id \in SessionIds :
         LET batch_details_result == get_weighing_session_detail(batch_id)
         IN Finish(c, [IdleCall EXCEPT !.op = "detail", !.principal = p,
                                       !.session_id = batch_id,
                                       !.session_doc = batch_details_result.session],
                   "500", Absent)
    /\ UNCHANGED <<docs, weights, images, clock, devices, users>>

\* update_device_status: the report with last_seen added, as written by
\* device_ref.set(status_data, merge=True) (every field of the report is
\* named, so the merge replaces them all)
status_data(device_id, status, now) ==
    [device_id |-> device_id, status |-> status, last_seen |-> now]

\* POST /api/iot/status.  The route has no validate_api_key decorator: the
\* Authorization header the request carried is kept in the call record for
\* the properties and is read by nothing.
handle_device_status(c) ==
    /\ CanStart(c)
    /\ \E api_key_ok \in BOOLEAN, device_id \in Devices, status \in DeviceStatuses :
         /\ devices' = (device_id :> status_data(device_id, status, clock)) @@ devices
         /\ Finish(c, [IdleCall EXCEPT !.op = "status", !.principal = device_id,
                                       !.api_key_ok = api_key_ok],
                   "ok", Absent)
    /\ UNCHANGED <<docs, weights, images, clock, users>>

\* GET /api/batches/history up to the end of the first query loop of
\* get_user_weighing_history; ret holds all_sessions
get_user_batches(c) ==
    /\ CanStart(c)
    /\ \E p \in Principals :
         calls' = [calls EXCEPT ![c] =
            [IdleCall EXCEPT !.op = "history", !.principal = p,
                             !.ret = Some(history_query(BATCH_COLLECTION, "product", p)),
                             !.pc = "rompes_query"]]
    /\ UNCHANGED <<docs, weights, images, clock, devices, users>>

\* The second query loop, the sort and the answer
history_rompes_query(c) ==
    /\ calls[c].op = "history" /\ calls[c].pc = "rompes_query"
    /\ LET all_sessions == Val(calls[c].ret)
                              \o history_query(ROMPES_COLLECTION, "rompes",
                                               calls[c].principal)
       IN Finish(c, calls[c], "ok", Some(sort_by_formatted_date(all_sessions)))
    /\ UNCHANGED <<docs, weights, images, clock, devices, users>>

\* GET /api/iot/active-session: the key check, then the first query loop of
\* get_active_weighing_session; ret holds active_sessions
handle_get_active_batch(c) ==
    /\ CanStart(c)
    /\ \E api_key_ok \in BOOLEAN :
         IF ~api_key_ok
         THEN Finish(c, Rejected("active"), "401", Absent)
         ELSE calls' = [calls EXCEPT ![c] =
                 [IdleCall EXCEPT !.op = "active", !.api_key_ok = api_key_ok,
                                  !.ret = Some(active_query(BATCH_COLLECTION, "product")),
                                  !.pc = "rompes_query"]]
    /\ UNCHANGED <<docs, weights, images, clock, devices, users>>

\* The second query loop, then None or the first of the sorted sessions
active_rompes_query(c) ==
    /\ calls[c].op = "active" /\ calls[c].pc = "rompes_query"
    /\ LET active_sessions == Val(calls[c].ret)
                                 \o active_query(ROMPES_COLLECTION, "rompes")
       IN IF active_sessions = <<>>
          THEN Finish(c, calls[c], "404", Absent)
          ELSE Finish(c, calls[c], "ok", Some(sort_by_created_at(active_sessions)[1]))
    /\ UNCHANGED <<docs, weights, images, clock, devices, users>>

\* decoded_token.get('email') of a principal
email_of(firebase_uid) == <<firebase_uid, "@lokatani.id">>

\* user_ref.where(field, '==', value).limit(1).get(): the ids of the
\* profiles that match (the query returns one of them)
users_where_firebase_uid(firebase_uid) ==
    {id \in DOMAIN users : users[id].firebase_uid = Some(firebase_uid)}

users_where_email(email) == {id \in DOMAIN users : users[id].email = email}

\* user_data of a new profile; the document id is the uuid4 drawn by the
\* call, which no other call draws (timestamps left out)
new_user_data(user_id, firebase_uid) ==
    [user_id |-> user_id, firebase_uid |-> Some(firebase_uid),
     email |-> email_of(firebase_uid), role |-> "user"]

\* firebase_token_required: the token check, then get_or_create_user_profile
\* up to its first query; the route handler runs when the result is "ok"
firebase_token_required(c) ==
    /\ CanStart(c)
    /\ \E token_ok \in BOOLEAN, firebase_uid \in Principals :
         LET rec == [IdleCall EXCEPT !.op = "profile", !.principal = firebase_uid]
             user_query == users_where_firebase_uid(firebase_uid)
         IN IF ~token_ok
            THEN Finish(c, Rejected("profile"), "401", Absent)
            ELSE IF user_query # {}
            THEN \E id \in user_query : Finish(c, rec, "ok", Some(users[id]))
            ELSE calls' = [calls EXCEPT ![c] = [rec EXCEPT !.pc = "email_query"]]
    /\ UNCHANGED <<docs, weights, images, clock, devices, users>>

\* email_query: a profile of the old system is found by its email, or none
profile_email_query(c) ==
    /\ calls[c].op = "profile" /\ calls[c].pc = "email_query"
    /\ LET email_query == users_where_email(email_of(calls[c].principal))
       IN IF email_query # {}
          THEN \E id \in email_query :
                  calls' = [calls EXCEPT ![c].pc = "migrate", ![c].ret = Some(users[id])]
          ELSE calls' = [calls EXCEPT ![c].pc = "create"]
    /\ UNCHANGED <<docs, weights, images, clock, devices, users>>

\* user_doc.reference.update({'firebase_uid': firebase_uid, ...})
profile_migrate(c) ==
    /\ calls[c].op = "profile" /\ calls[c].pc = "migrate"
    /\ LET user_data == Val(calls[c].ret)
       IN /\ users' = [users EXCEPT ![user_data.user_id].firebase_uid =
                                       Some(calls[c].principal)]
          /\ Finish(c, calls[c], "ok",
                    Some([user_data EXCEPT !.firebase_uid = Some(calls[c].principal)]))
    /\ UNCHANGED <<docs, weights, images, clock, devices>>

\* auth.get_user raises: the except branch returns None and the middleware
\* answers 404
profile_create_raises(c) ==
    /\ calls[c].op = "profile" /\ calls[c].pc = "create"
    /\ Finish(c, calls[c], "404", Absent)
    /\ UNCHANGED <<docs, weights, images, clock, devices, users>>

\* user_ref.document(user_id).set(user_data)
profile_create(c) ==
    /\ calls[c].op = "profile" /\ calls[c].pc = "create"
    /\ users' = (c :> new_user_data(c, calls[c].principal)) @@ users
    /\ Finish(c, calls[c], "ok", Some(new_user_data(c, calls[c].principal)))
    /\ UNCHANGED <<docs, weights, images, clock, devices>>

\* datetime.utcnow() advances between requests
Tick ==
    /\ clock < MaxClock
    /\ clock' = clock + 1
    /\ UNCHANGED <<docs, weights, images, calls, devices, users>>

Init ==
    /\ docs = <<>>
    /\ weights = [s \in SessionIds |-> <<>>]
    /\ images = {}
    /\ clock = 0
    /\ calls = [c \in Calls |-> IdleCall]
    /\ devices = <<>>
    /\ users = <<>>

Next ==
    \/ Tick
    \/ \E c \in Calls :
         \/ initiate_batch_tracking(c)
         \/ handle_iot_weight(c)
         \/ process_weight_set_entry(c)
         \/ process_weight_increment(c)
         \/ finalize_batch_tracking(c)
         \/ complete_update(c)
         \/ complete_return(c)
         \/ process_vegetable_identification(c)
         \/ identify_vegetable_raises(c)
         \/ identify_vegetable(c)
         \/ get_batch_details(c)

Spec == Init /\ [][Next]_vars

\* A store that still holds a session of the earlier service version, whose
\* id is a bare uuid kept in the product collection (the "legacy IDs" of the
\* prefix dispatch).
InitLegacy ==
    /\ docs = (<<BATCH_COLLECTION, <<"", 1>>>> :> new_session("alice", "product", 0))
    /\ weights = [s \in SessionIds |-> <<>>]
    /\ images = {}
    /\ clock = 0
    /\ calls = [c \in Calls |-> IdleCall]
    /\ devices = <<>>
    /\ users = <<>>

SpecLegacy == InitLegacy /\ [][Next]_vars

\* The device-facing routes (routes_iot.py) over sessions created by users
NextDevice ==
    \/ Tick
    \/ \E c \in Calls :
         \/ initiate_batch_tracking(c)
         \/ handle_iot_weight(c)
         \/ process_weight_set_entry(c)
         \/ process_weight_increment(c)
         \/ handle_device_status(c)

SpecDevice == Init /\ [][NextDevice]_vars

\* The two listing operations over sessions that are created and completed
NextQuery ==
    \/ Tick
    \/ \E c \in Calls :
         \/ initiate_batch_tracking(c)
         \/ finalize_batch_tracking(c)
         \/ complete_update(c)
         \/ complete_return(c)
         \/ get_user_batches(c)
         \/ history_rompes_query(c)
         \/ handle_get_active_batch(c)
         \/ active_rompes_query(c)

SpecQuery == Init /\ [][NextQuery]_vars

\* The users collection when the service starts: empty, or holding a
\* profile of the old system, which has an email and no firebase_uid
LegacyProfile ==
    [user_id |-> 0, firebase_uid |-> Absent, email |-> email_of("bob"), role |-> "admin"]

InitUsers ==
    /\ docs = <<>>
    /\ weights = [s \in SessionIds |-> <<>>]
    /\ images = {}
    /\ clock = 0
    /\ calls = [c \in Calls |-> IdleCall]
    /\ devices = <<>>
    /\ users \in {<<>>, 0 :> LegacyProfile}

\* The authentication middleware of every user route
NextUsers ==
    \E c \in Calls :
       \/ firebase_token_required(c)
       \/ profile_email_query(c)
       \/ profile_migrate(c)
       \/ profile_create_raises(c)
       \/ profile_create(c)

SpecUsers == InitUsers /\ [][NextUsers]_vars

\* ------------------------------------------------------------- properties

\* The call that takes the step, if the step is one of call c's
Steps(c) == calls'[c] # calls[c]

InFlight(c) == calls[c].pc \notin {"idle", "done"}

Returned(c, op, result) ==
    calls[c].op = op /\ calls[c].pc = "done" /\ calls[c].result = result

Authorized(principal, doc) == principal = doc.user_id \/ RoleOf[principal] = "admin"

Identification(doc) == <<doc.vegetable_type, doc.confidence, doc.image_url>>

RECURSIVE SumOfWeights(_)
SumOfWeights(cs) ==
    IF cs = {} THEN 0
    ELSE LET c == CHOOSE x \in cs : TRUE
         IN calls[c].weight + SumOfWeights(cs \ {c})

\* The weight calls on session_id that have returned success
Recorded(session_id) ==
    {c \in Calls : Returned(c, "weight", "ok") /\ calls[c].session_id = session_id}

\* The sum of the weight values of a reading history
RECURSIVE SumOfReadings(_)
SumOfReadings(readings) ==
    IF readings = <<>> THEN 0
    ELSE Head(readings).weight + SumOfReadings(Tail(readings))

\* The calls of kind op on session_id that have not returned yet
Pending(op, session_id) ==
    {c \in Calls : calls[c].op = op /\ calls[c].session_id = session_id /\ InFlight(c)}

\* C1: completed_at is stamped once: a step never changes the completed_at
\* of a session that already has one (a second complete leaves the first
\* stamp in place).
C1_CompletedAtStampedOnce ==
    [][\A key \in DOMAIN docs :
         docs[key].completed_at # Absent
            => docs'[key].completed_at = docs[key].completed_at]_vars

\* C2: no lost updates: whenever no record_weight call on a session is in
\* flight, its total_weight is the initial 0 plus the sum of the values of
\* all record_weight calls on it that returned success.
C2_NoLostUpdates ==
    \A key \in DOMAIN docs :
       (\A c \in Calls : calls[c].op = "weight" /\ calls[c].session_id = key[2]
                            => ~InFlight(c))
          => docs[key].total_weight = SumOfWeights(Recorded(key[2]))

\* Two record_weight calls of value 2 on one session that both read it before
\* either incremented it, and both returned.
C2_Witness ==
    \E key \in DOMAIN docs : \E c, d \in Recorded(key[2]) :
       /\ c # d
       /\ calls[c].weight = 2 /\ calls[d].weight = 2
       /\ Val(calls[c].session_doc).total_weight = 0
       /\ Val(calls[d].session_doc).total_weight = 0
       /\ docs[key].total_weight = 4

\* C3: a record_weight call that finds its session completed returns
\* InvalidState.
C3_CompletedRejectsWeight ==
    \A c \in Calls :
       /\ calls[c].op = "weight" /\ calls[c].pc = "done"
       /\ calls[c].session_doc # Absent
       /\ Val(calls[c].session_doc).status = "completed"
       => calls[c].result = "invalid_state"

\* C4: an identify_and_attach call that arrives for a completed session does
\* not end in success, and the session's identification fields are what they
\* were when it arrived.
C4_CompletedRejectsIdentify ==
    \A c \in Calls :
       /\ calls[c].op = "identify" /\ calls[c].pc = "done"
       /\ calls[c].session_doc # Absent
       /\ Val(calls[c].session_doc).status = "completed"
       => /\ calls[c].result # "detected"
          /\ Identification(docs[<<BATCH_COLLECTION, calls[c].session_id>>])
               = Identification(Val(calls[c].session_doc))

\* C5: complete is linearizable against in-flight writers: a record_weight
\* or identify_and_attach call that was admitted while the session was
\* in_progress makes no write to it once its status is completed.
C5_NoWriteAfterComplete ==
    [][\A c \in Calls :
         /\ calls[c].op \in {"weight", "identify"}
         /\ InFlight(c) /\ Steps(c)
         /\ calls[c].session_doc # Absent
         /\ Val(calls[c].session_doc).status = "in_progress"
         /\ docs[<<IF calls[c].op = "weight"
                   THEN weight_dispatch(calls[c].session_id).collection_name
                   ELSE BATCH_COLLECTION, calls[c].session_id>>].status = "completed"
         => /\ docs' = docs
            /\ weights' = weights]_vars

\* C6: a step of a record_weight call with reference r changes no session
\* document other than the one with id r in the collection r's prefix names
\* (prod_ and no prefix: vegetable_batches; rompes_: rompes_batches), and no
\* reading history other than r's; its increment step adds the value to that
\* document's total_weight.
C6_PrefixRouting ==
    [][\A c \in Calls :
         calls[c].op = "weight" /\ InFlight(c) /\ Steps(c)
         => LET r == calls[c].session_id
                target == <<IF r[1] = "rompes_" THEN "rompes_batches"
                            ELSE "vegetable_batches", r>>
            IN /\ DOMAIN docs' = DOMAIN docs
               /\ \A key \in DOMAIN docs : key # target => docs'[key] = docs[key]
               /\ \A s \in SessionIds : s # r => weights'[s] = weights[s]
               /\ calls[c].pc = "increment"
                    => /\ target \in DOMAIN docs
                       /\ docs'[target].total_weight
                            = docs[target].total_weight + calls[c].weight]_vars

\* A rompes session and a product session with the same suffix, a returned
\* record_weight on each of the three kinds of reference, and every total
\* equal to what was sent to it.
C6_Witness ==
    /\ <<"vegetable_batches", <<"", 1>>>> \in DOMAIN docs
    /\ <<"rompes_batches", <<"rompes_", 1>>>> \in DOMAIN docs
    /\ \E c, d \in Calls :
         /\ Returned(c, "weight", "ok") /\ calls[c].session_id = <<"rompes_", 1>>
         /\ Returned(d, "weight", "ok") /\ calls[d].session_id = <<"", 1>>
         /\ calls[c].weight # calls[d].weight
         /\ docs[<<"rompes_batches", <<"rompes_", 1>>>>].total_weight = calls[c].weight
         /\ docs[<<"vegetable_batches", <<"", 1>>>>].total_weight = calls[d].weight

\* C7: a complete call on an existing session returns success to the owner
\* and to an admin, and Forbidden (403) to anyone else.
C7_CompleteOwnership ==
    \A c \in Calls :
       calls[c].op = "complete" /\ calls[c].pc = "done" /\ calls[c].session_doc # Absent
       => calls[c].result =
            IF Authorized(calls[c].principal, Val(calls[c].session_doc))
            THEN "ok" ELSE "403"

\* C8: get_session_detail on an existing session returns the session to the
\* owner and to an admin, and Forbidden (403) to anyone else.
C8_DetailOwnership ==
    \A c \in Calls :
       calls[c].op = "detail" /\ calls[c].pc = "done" /\ calls[c].session_doc # Absent
       => calls[c].result =
            IF Authorized(calls[c].principal, Val(calls[c].session_doc))
            THEN "ok" ELSE "403"

\* C9: the session an initiate call created is owned by the authenticated
\* principal of that call, whatever user_id the request body carried.
C9_OwnerForced ==
    \A c \in Calls :
       Returned(c, "initiate", "ok")
       => \E key \in DOMAIN docs :
             key[2] = Val(calls[c].ret) /\ docs[key].user_id = calls[c].principal

\* An initiate call whose body named another user, and the session it made.
C9_Witness ==
    \E c \in Calls :
       /\ Returned(c, "initiate", "ok")
       /\ calls[c].body_user \in Principals \ {calls[c].principal}
       /\ \E key \in DOMAIN docs : key[2] = Val(calls[c].ret)

\* C10: status is monotone: a session that is completed is still there and
\* still completed after every step.
C10_StatusMonotone ==
    [][\A key \in DOMAIN docs :
         docs[key].status = "completed"
            => key \in DOMAIN docs' /\ docs'[key].status = "completed"]_vars

\* A completed session on which a further complete call, admitted after the
\* completion, has returned.
C10_Witness ==
    \E key \in DOMAIN docs : \E d \in Calls :
       /\ docs[key].status = "completed"
       /\ Returned(d, "complete", "ok") /\ calls[d].session_id = key[2]
       /\ Val(calls[d].session_doc).status = "completed"

C12_NonNegativeNonDecreasing ==
    /\ [](\A key \in DOMAIN docs : docs[key].total_weight >= 0)
    /\ [][\A key \in DOMAIN docs :
            docs[key].status = "in_progress"
               => docs'[key].total_weight >= docs[key].total_weight]_vars

\* C13: a record_weight call with a negative value on an existing session
\* ends with InvalidArgument, and neither a reading nor the total of the
\* session changes while the call runs.
C13_NegativeWeightRejected ==
    /\ [](\A c \in Calls :
            /\ calls[c].op = "weight" /\ calls[c].pc = "done"
            /\ calls[c].weight < 0 /\ calls[c].session_doc # Absent
            => calls[c].result = "invalid_argument")
    /\ [][\A c \in Calls :
            calls[c].op = "weight" /\ calls[c].weight < 0 /\ Steps(c)
            => docs' = docs /\ weights' = weights]_vars

\* The session a reference names: the document of that id in the partition
\* of its prefix
Named(r) == <<IF r[1] = "rompes_" THEN "rompes_batches" ELSE "vegetable_batches", r>>

\* Call c arrives in this step as an admitted request of kind op
Arrives(c, op) ==
    calls[c].pc = "idle" /\ calls'[c].op = op /\ calls'[c].principal # ""

\* C14: a record_weight call whose reference names no existing session ends
\* at once with the NotFound outcome, and its step creates no session,
\* writes no reading and changes no total.
C14_MissingSessionNotFound ==
    [][\A c \in Calls :
         /\ Arrives(c, "weight")
         /\ calls'[c].session_id # Absent
         /\ Named(calls'[c].session_id) \notin DOMAIN docs
         => /\ calls'[c].pc = "done" /\ calls'[c].result = "not_found"
            /\ docs' = docs /\ weights' = weights]_vars

\* A record_weight call that ended NotFound while a session of the same
\* suffix existed in the other partition.
C14_Witness ==
    \E c \in Calls : \E key \in DOMAIN docs :
       /\ Returned(c, "weight", "not_found")
       /\ key[2][2] = calls[c].session_id[2]
       /\ key[2][1] # calls[c].session_id[1]

\* C15: a reading submitted without a session reference ends at once with
\* the outcome "received" (unassigned), and its step changes no session
\* document and no reading history.
C15_UnassignedReceived ==
    [][\A c \in Calls :
         Arrives(c, "weight") /\ calls'[c].session_id = Absent
         => /\ calls'[c].pc = "done" /\ calls'[c].result = "received"
            /\ docs' = docs /\ weights' = weights]_vars

\* A reading without a reference was received while an in_progress session
\* existed, and that session has no reading and total 0.
C15_Witness ==
    \E c \in Calls : \E key \in DOMAIN docs :
       /\ Returned(c, "weight", "received") /\ calls[c].session_id = Absent
       /\ docs[key].status = "in_progress" /\ docs[key].total_weight = 0
       /\ weights[key[2]] = <<>>

\* C16: a create call with a session_type other than product and rompes
\* ends with the InvalidArgument failure (the ValueError naming the two
\* types) and its step creates no session document in either collection.
C16_InvalidTypeRejected ==
    [][\A c \in Calls :
         /\ calls[c].pc = "idle" /\ calls'[c].op = "initiate"
         /\ calls'[c].session_type \notin {"product", "rompes"}
         => /\ calls'[c].pc = "done" /\ calls'[c].result = "500"
            /\ calls'[c].ret = Some("session_type must be either 'product' or 'rompes'")
            /\ docs' = docs]_vars

\* A create call with an unrecognized type has been refused after a session
\* had been created, and the store holds that session only.
C16_Witness ==
    \E c, d \in Calls :
       /\ Returned(c, "initiate", "ok")
       /\ Returned(d, "initiate", "500") /\ calls[d].session_type = "other"
       /\ c < d
       /\ Cardinality(DOMAIN docs) = 1

\* C17: a create call for a rompes session succeeds only if it carried a
\* sub-type (produce variety); without one it fails with InvalidArgument and
\* creates no session.
C17_RompesNeedsVariety ==
    \A c \in Calls :
       Returned(c, "initiate", "ok") /\ calls[c].session_type = "rompes"
       => calls[c].variety # Absent

\* C18: every session an initiate call creates starts in_progress with
\* total_weight 0, and in every reachable state the id prefix, the stored
\* session_type and the collection of every stored session agree: prod_ /
\* product / vegetable_batches, or rompes_ / rompes / rompes_batches.
C18_ShapeAndPrefix ==
    /\ [](\A key \in DOMAIN docs :
            \/ /\ key[2][1] = "prod_" /\ docs[key].session_type = "product"
               /\ key[1] = "vegetable_batches"
            \/ /\ key[2][1] = "rompes_" /\ docs[key].session_type = "rompes"
               /\ key[1] = "rompes_batches")
    /\ [][\A key \in DOMAIN docs' \ DOMAIN docs :
            docs'[key].status = "in_progress" /\ docs'[key].total_weight = 0]_vars

\* A product and a rompes session of the same suffix, one of them completed.
C18_Witness ==
    /\ <<"vegetable_batches", <<"prod_", 1>>>> \in DOMAIN docs
    /\ <<"rompes_batches", <<"rompes_", 1>>>> \in DOMAIN docs
    /\ \E key \in DOMAIN docs : docs[key].status = "completed"

\* C19: a complete call whose id names no existing session ends at once with
\* the NotFound failure (the ValueError "... does not exist") and its step
\* creates and modifies no session document.
C19_CompleteMissingNotFound ==
    [][\A c \in Calls :
         /\ Arrives(c, "complete")
         /\ calls'[c].session_id # Absent
         /\ Named(calls'[c].session_id) \notin DOMAIN docs
         => /\ calls'[c].pc = "done" /\ calls'[c].result = "500"
            /\ calls'[c].ret = Some("Session with ID does not exist.")
            /\ docs' = docs]_vars

\* A complete call that ended NotFound while an in_progress session of the
\* same suffix existed in the other partition, which is still in_progress.
C19_Witness ==
    \E c \in Calls : \E key \in DOMAIN docs :
       /\ Returned(c, "complete", "500") /\ calls[c].session_id # Absent
       /\ key[2][2] = calls[c].session_id[2]
       /\ key[2][1] # calls[c].session_id[1]
       /\ docs[key].status = "in_progress" /\ docs[key].completed_at = Absent

\* C20: the step in which an identify_and_attach call ends Rejected (no
\* detection, or a best label outside {kale, bayam merah}) deletes the
\* uploaded image and changes no session document.
C20_RejectionCleanup ==
    [][\A c \in Calls :
         /\ calls[c].op = "identify" /\ InFlight(c)
         /\ calls'[c].pc = "done"
         /\ calls'[c].result \in {"no_object", "not_kale_or_bayam"}
         => /\ calls[c].filename \in images
            /\ calls[c].filename \notin images'
            /\ docs' = docs /\ weights' = weights]_vars

\* Both kinds of rejection have happened on a reference to an existing
\* session, the bucket is empty and the session carries no identification.
C20_Witness ==
    \E c, d \in Calls :
       /\ Returned(c, "identify", "no_object")
       /\ Returned(d, "identify", "not_kale_or_bayam")
       /\ calls[d].session_doc # Absent
       /\ images = {}
       /\ Identification(docs[<<BATCH_COLLECTION, calls[d].session_id>>])
            = <<Absent, Absent, Absent>>

\* C21: when the classifier returns a recognized label for a call whose
\* reference names (by its prefix) an existing in_progress session, product
\* or rompes, the call ends Accepted and that session's vegetable_type,
\* confidence and image_url are this call's result after the step.
C21_AcceptedAttached ==
    [][\A c \in Calls :
         /\ calls[c].op = "identify" /\ InFlight(c) /\ calls'[c].pc = "done"
         /\ calls'[c].ret # Absent
         /\ calls[c].session_id # Absent
         /\ Named(calls[c].session_id) \in DOMAIN docs
         /\ docs[Named(calls[c].session_id)].status = "in_progress"
         => /\ calls'[c].result = "detected"
            /\ Identification(docs'[Named(calls[c].session_id)])
                 = <<Some(Val(calls'[c].ret).vegetable_type),
                     Some(Val(calls'[c].ret).confidence),
                     Some(Val(calls'[c].ret).image_url)>>]_vars

C25_OwnerAndTypeImmutable ==
    [][\A key \in DOMAIN docs :
         /\ key \in DOMAIN docs'
         /\ docs'[key].user_id = docs[key].user_id
         /\ docs'[key].session_type = docs[key].session_type]_vars

\* A session that has a reading and was completed by a principal other than
\* its owner, still owned by the principal that created it.
C25_Witness ==
    \E c, d, e \in Calls : \E key \in DOMAIN docs :
       /\ Returned(c, "initiate", "ok") /\ Val(calls[c].ret) = key[2]
       /\ Returned(d, "weight", "ok") /\ calls[d].session_id = key[2]
       /\ Returned(e, "complete", "ok") /\ calls[e].session_id = key[2]
       /\ calls[e].principal # calls[c].principal
       /\ docs[key].user_id = calls[c].principal
       /\ docs[key].session_type = calls[c].session_type

\* The fields complete must leave alone
Frozen(doc) ==
    <<doc.user_id, doc.session_type, doc.created_at, doc.total_weight,
      doc.vegetable_type, doc.confidence, doc.image_url>>

\* C26: frame of complete: the write of a complete call changes only status
\* and completed_at of its session, every other field of it, every other
\* session and every reading history staying as it was; and the record the
\* call returns reports the session's stored values.
C26_CompleteFrame ==
    [][\A c \in Calls :
         calls[c].op = "complete" /\ InFlight(c) /\ Steps(c)
         => LET target == Named(calls[c].session_id)
            IN /\ DOMAIN docs' = DOMAIN docs
               /\ \A key \in DOMAIN docs : key # target => docs'[key] = docs[key]
               /\ Frozen(docs'[target]) = Frozen(docs[target])
               /\ weights' = weights /\ images' = images
               /\ calls'[c].pc = "done"
                    => LET r == Val(calls'[c].ret)
                       IN /\ calls'[c].result = "ok"
                          /\ r.status = "completed"
                          /\ r.completed_at = docs[target].completed_at
                          /\ <<r.total_weight, r.vegetable_type, r.confidence, r.image_url>>
                               = <<docs[target].total_weight, docs[target].vegetable_type,
                                   docs[target].confidence, docs[target].image_url>>]_vars

\* A complete call returned on a session that had a reading, and both the
\* session and the returned record carry the reading's value as total.
C26_Witness ==
    \E d, e \in Calls : \E key \in DOMAIN docs :
       /\ Returned(d, "weight", "ok") /\ calls[d].session_id = key[2]
       /\ calls[d].weight > 0
       /\ Returned(e, "complete", "ok") /\ calls[e].session_id = key[2]
       /\ docs[key].total_weight = calls[d].weight
       /\ Val(calls[e].ret).total_weight = calls[d].weight
       /\ docs[key].status = "completed"

\* C27: record_weight on a product session is all-or-nothing: in every
\* reachable state, the states between the steps of an in-flight call
\* included, the total_weight of a product session is the sum of the values
\* of the readings its history holds.
C27_ReadingsIncludedInTotal ==
    \A key \in DOMAIN docs :
       docs[key].session_type = "product"
          => docs[key].total_weight = SumOfReadings(weights[key[2]])

\* C24: device operations require the device credential: a step changes a
\* device record, a reading history or the total_weight of a session only if
\* it is a step of a request that carried the valid device credential.
C24_DeviceCredentialRequired ==
    [][(\/ devices' # devices
        \/ weights' # weights
        \/ \E key \in DOMAIN docs :
              docs'[key].total_weight # docs[key].total_weight)
         => \E c \in Calls : Steps(c) /\ calls'[c].api_key_ok]_vars

\* The session ids of a list of entries
IdsOf(list) == {list[i].session_id : i \in 1..Len(list)}

\* The ids of the sessions of a collection that principal p owns
OwnedIn(collection_name, p) ==
    {key[2] : key \in {k \in DOMAIN docs : k[1] = collection_name /\ docs[k].user_id = p}}

\* C23: list_history for a principal p returns exactly p's sessions, whatever
\* p's role: each of its two queries reads exactly the sessions of its
\* partition that p owns, and the list returned holds the sessions read,
\* each once, all of them owned by p.
C23_HistoryScoped ==
    [][\A c \in Calls :
         /\ Arrives(c, "history")
            => IdsOf(Val(calls'[c].ret)) = OwnedIn("vegetable_batches", calls'[c].principal)
         /\ calls[c].op = "history" /\ InFlight(c) /\ calls'[c].pc = "done"
            => LET list == Val(calls'[c].ret)
               IN /\ calls'[c].result = "ok"
                  /\ IdsOf(list) = IdsOf(Val(calls[c].ret))
                                     \cup OwnedIn("rompes_batches", calls[c].principal)
                  /\ Cardinality(IdsOf(list)) = Len(list)
                  /\ \A i \in 1..Len(list) :
                        docs[Named(list[i].session_id)].user_id = calls[c].principal]_vars

\* The admin asked for the history while a user and the admin owned one
\* session each, and the list holds the admin's session only.
C23_Witness ==
    \E c \in Calls : \E key, other \in DOMAIN docs :
       /\ Returned(c, "history", "ok") /\ RoleOf[calls[c].principal] = "admin"
       /\ docs[key].user_id = calls[c].principal
       /\ docs[other].user_id # calls[c].principal
       /\ IdsOf(Val(calls[c].ret)) = {key[2]}

\* C28: the list get_user_weighing_history returns is ordered by creation
\* date, most recent first: of two returned sessions created on different
\* dates, the one created later comes earlier in the list.
C28_HistoryMostRecentFirst ==
    \A c \in Calls :
       Returned(c, "history", "ok")
       => LET list == Val(calls[c].ret)
          IN \A i, j \in 1..Len(list) :
                i < j => docs[Named(list[i].session_id)].created_at
                           >= docs[Named(list[j].session_id)].created_at

\* The sessions that are in_progress
InProgress == {key \in DOMAIN docs : docs[key].status = "in_progress"}

C30_OneProfilePerIdentity ==
    \A p \in Principals :
       Cardinality({id \in DOMAIN users : users[id].firebase_uid = Some(p)}) <= 1

=============================================================================
